---- MODULE Spec2Model ----
(***************************************************************************)
(* Model of neon.ulp (src/src/neon/ulp.py): ULP operations on IEEE-754     *)
(* binary floating-point values.                                           *)
(*                                                                         *)
(* A double is modelled by its bit pattern, a natural number below         *)
(* 2^Width, laid out exactly as binary64 is: one sign bit, ExpBits         *)
(* exponent bits, ManBits mantissa bits.  binary64 has ExpBits = 11 and    *)
(* ManBits = 52; the model keeps the layout and every rule of the format   *)
(* (signed zeros, subnormals, normals, infinities, NaNs) but uses a        *)
(* narrower exponent and mantissa so that every pair of values can be      *)
(* enumerated.  The constants 2**63 and 2**64 of the code are              *)
(* 2^(Width-1) and 2^Width here.  Python integers are unbounded, so no     *)
(* integer operation of the code wraps.                                    *)
(***************************************************************************)
EXTENDS Integers, Sequences, FiniteSets, TLC

VARIABLES a, b, n, m, op, res, calls

vars == <<a, b, n, m, op, res, calls>>

\* ---- bounds ------------------------------------------------------------
ExpBits == 3
ManBits == 2
MaxN == 5
MaxUlps == 5

\* ---- the floating-point format ------------------------------------------
RECURSIVE Pow2(_)
Pow2(k) == IF k = 0 THEN 1 ELSE 2 * Pow2(k - 1)

Width == 1 + ExpBits + ManBits
SignBit == Pow2(Width - 1)
Modulus == Pow2(Width)
Doubles == 0 .. (Modulus - 1)

Abs(i) == IF i < 0 THEN 0 - i ELSE i

Magnitude(x) == x % SignBit
Negative(x) == x >= SignBit
Exponent(x) == Magnitude(x) \div Pow2(ManBits)
Mantissa(x) == x % Pow2(ManBits)
ExpAllOnes == Pow2(ExpBits) - 1

PosZero == 0
NegZero == SignBit
PosInf == ExpAllOnes * Pow2(ManBits)
NegInf == SignBit + PosInf
MinSubnormal == 1
MaxFinite == PosInf - 1

\* math.isnan, math.isinf
isnan(x) == Exponent(x) = ExpAllOnes /\ Mantissa(x) # 0
isinf(x) == Exponent(x) = ExpAllOnes /\ Mantissa(x) = 0
IsZero(x) == Magnitude(x) = 0
Finite(x) == ~isnan(x) /\ ~isinf(x)

\* The real value of a non-NaN pattern, in units of the smallest subnormal.
\* An infinity is given the value the next binade would start at, so that
\* the order of values is the order of these numbers.
Val(x) ==
    LET e == Exponent(x)
        f == Mantissa(x)
        mag == IF e = 0 THEN f ELSE (Pow2(ManBits) + f) * Pow2(e - 1)
    IN IF Negative(x) THEN 0 - mag ELSE mag

\* IEEE comparisons of Python floats: a == b, a < b
FEq(x, y) == ~isnan(x) /\ ~isnan(y) /\ Val(x) = Val(y)
FLess(x, y) == ~isnan(x) /\ ~isnan(y) /\ Val(x) < Val(y)

\* A NaN operand comes back quiet (top mantissa bit set).
QuietNaN(x) ==
    IF Mantissa(x) >= Pow2(ManBits - 1) THEN x ELSE x + Pow2(ManBits - 1)

\* nextafter without the x == y case.
nextafter_NoEqualCase(x, y) ==
    IF isnan(x) THEN QuietNaN(x)
    ELSE IF isnan(y) THEN QuietNaN(y)
    ELSE IF IsZero(x) THEN (IF Negative(y) THEN SignBit + MinSubnormal
                                           ELSE MinSubnormal)
    ELSE IF FLess(x, y) = ~Negative(x) THEN x + 1
    ELSE x - 1

\* math.nextafter(x, y): the next representable value after x towards y.
nextafter(x, y) ==
    IF isnan(x) THEN QuietNaN(x)
    ELSE IF isnan(y) THEN QuietNaN(y)
    ELSE IF FEq(x, y) THEN y
    ELSE IF IsZero(x) THEN (IF Negative(y) THEN SignBit + MinSubnormal
                                           ELSE MinSubnormal)
    ELSE IF FLess(x, y) = ~Negative(x) THEN x + 1
    ELSE x - 1

\* ---- results ------------------------------------------------------------
\* What a call produced: an exception (raised), or a returned integer or
\* double (value), or a returned bool (flag).  branch names the return
\* statement that produced it.
NoResult == [raised |-> FALSE, value |-> 0, flag |-> FALSE, branch |-> "none"]
RaiseInvalidValue(br) ==
    [raised |-> TRUE, value |-> 0, flag |-> FALSE, branch |-> br]
Return(v, br) == [raised |-> FALSE, value |-> v, flag |-> FALSE, branch |-> br]
ReturnBool(f, br) ==
    [raised |-> FALSE, value |-> 0, flag |-> f, branch |-> br]

\* ---- neon.ulp -----------------------------------------------------------
\* abs(p - q) for two finite doubles p, q whose difference is representable
\* (adjacent doubles differ by a power of two of the smallest subnormal);
\* an infinite operand gives +inf.
AbsFSub(p, q) ==
    IF isinf(p) \/ isinf(q) THEN PosInf
    ELSE LET d == Abs(Val(p) - Val(q))
         IN CHOOSE r \in 0 .. MaxFinite : Val(r) = d

\* of measuring the gap below x instead of the gap above it.
of_GapBelow(x) ==
    IF isnan(x) THEN RaiseInvalidValue("nan")
    ELSE IF isinf(x) THEN Return(PosInf, "inf")
    ELSE IF FEq(x, PosZero) THEN Return(nextafter(PosZero, PosInf - 1), "zero")
    ELSE Return(AbsFSub(nextafter(x, NegInf), x), "gap")

of(x) ==
    IF isnan(x) THEN RaiseInvalidValue("nan")
    ELSE IF isinf(x) THEN Return(PosInf, "inf")
    ELSE IF FEq(x, PosZero) THEN Return(nextafter(PosZero, PosInf - 1), "zero")
    ELSE Return(AbsFSub(nextafter(x, PosInf), x), "gap")

\* struct.unpack('>Q', struct.pack('>d', f)), then reinterpreted as a
\* signed two's-complement integer of the same width.
float_to_int_bits(f) ==
    LET bits == f
    IN IF bits >= SignBit THEN bits - Modulus ELSE bits

\* diff without the infinity check.
diff_NoInfCheck(x, y) ==
    IF isnan(x) \/ isnan(y) THEN RaiseInvalidValue("nan")
    ELSE IF FEq(x, y) THEN Return(0, "equal")
    ELSE LET a_bits == float_to_int_bits(x)
             b_bits == float_to_int_bits(y)
         IN IF FLess(x, PosZero) # FLess(y, PosZero)
            THEN Return(Abs(a_bits) + Abs(b_bits), "cross")
            ELSE Return(Abs(a_bits - b_bits), "same")

\* diff whose sign-crossing branch forgets abs() on the second operand.
diff_CrossNoAbs(x, y) ==
    IF isnan(x) \/ isnan(y) THEN RaiseInvalidValue("nan")
    ELSE IF isinf(x) \/ isinf(y) THEN RaiseInvalidValue("inf")
    ELSE IF FEq(x, y) THEN Return(0, "equal")
    ELSE LET a_bits == float_to_int_bits(x)
             b_bits == float_to_int_bits(y)
         IN IF FLess(x, PosZero) # FLess(y, PosZero)
            THEN Return(Abs(a_bits) + b_bits, "cross")
            ELSE Return(Abs(a_bits - b_bits), "same")

\* diff without the a == b early return.
diff_NoEqualCheck(x, y) ==
    IF isnan(x) \/ isnan(y) THEN RaiseInvalidValue("nan")
    ELSE IF isinf(x) \/ isinf(y) THEN RaiseInvalidValue("inf")
    ELSE LET a_bits == float_to_int_bits(x)
             b_bits == float_to_int_bits(y)
         IN IF FLess(x, PosZero) # FLess(y, PosZero)
            THEN Return(Abs(a_bits) + Abs(b_bits), "cross")
            ELSE Return(Abs(a_bits - b_bits), "same")

\* diff telling the signs apart by the sign bit instead of by < 0.
diff_SignBitTest(x, y) ==
    IF isnan(x) \/ isnan(y) THEN RaiseInvalidValue("nan")
    ELSE IF isinf(x) \/ isinf(y) THEN RaiseInvalidValue("inf")
    ELSE IF FEq(x, y) THEN Return(0, "equal")
    ELSE LET a_bits == float_to_int_bits(x)
             b_bits == float_to_int_bits(y)
         IN IF (a_bits < 0) # (b_bits < 0)
            THEN Return(Abs(a_bits) + Abs(b_bits), "cross")
            ELSE Return(Abs(a_bits - b_bits), "same")

\* diff without abs() in the same-sign branch.
diff_SameNoAbs(x, y) ==
    IF isnan(x) \/ isnan(y) THEN RaiseInvalidValue("nan")
    ELSE IF isinf(x) \/ isinf(y) THEN RaiseInvalidValue("inf")
    ELSE IF FEq(x, y) THEN Return(0, "equal")
    ELSE LET a_bits == float_to_int_bits(x)
             b_bits == float_to_int_bits(y)
         IN IF FLess(x, PosZero) # FLess(y, PosZero)
            THEN Return(Abs(a_bits) + Abs(b_bits), "cross")
            ELSE Return(a_bits - b_bits, "same")

diff(x, y) ==
    IF isnan(x) \/ isnan(y) THEN RaiseInvalidValue("nan")
    ELSE IF isinf(x) \/ isinf(y) THEN RaiseInvalidValue("inf")
    ELSE IF FEq(x, y) THEN Return(0, "equal")
    ELSE LET a_bits == float_to_int_bits(x)
             b_bits == float_to_int_bits(y)
         IN IF FLess(x, PosZero) # FLess(y, PosZero)
            THEN Return(Abs(a_bits) + Abs(b_bits), "cross")
            ELSE Return(Abs(a_bits - b_bits), "same")

\* within comparing with < instead of <=.
within_StrictLess(x, y, max_ulps) ==
    IF FEq(x, y) THEN ReturnBool(TRUE, "equal")
    ELSE IF isnan(x) \/ isnan(y) THEN ReturnBool(FALSE, "nan")
    ELSE IF isinf(x) \/ isinf(y) THEN ReturnBool(FEq(x, y), "inf")
    ELSE LET d == diff(x, y)
         IN IF d.raised THEN ReturnBool(FALSE, "except")
            ELSE ReturnBool(d.value < max_ulps, "diff")

within(x, y, max_ulps) ==
    IF FEq(x, y) THEN ReturnBool(TRUE, "equal")
    ELSE IF isnan(x) \/ isnan(y) THEN ReturnBool(FALSE, "nan")
    ELSE IF isinf(x) \/ isinf(y) THEN ReturnBool(FEq(x, y), "inf")
    ELSE LET d == diff(x, y)
         IN IF d.raised THEN ReturnBool(FALSE, "except")
            ELSE ReturnBool(d.value <= max_ulps, "diff")

next(x) == nextafter(x, PosInf)

prev(x) == nextafter(x, NegInf)

\* for _ in range(count): current = math.nextafter(current, direction)
RECURSIVE StepLoop(_, _, _)
StepLoop(current, direction, count) ==
    IF count = 0 THEN current
    ELSE StepLoop(nextafter(current, direction), direction, count - 1)

\* add taking one step too few when stepping down.
add_ShortDown(x, k) ==
    IF k = 0 THEN x
    ELSE IF k > 0 THEN StepLoop(x, PosInf, k)
    ELSE StepLoop(x, NegInf, Abs(k) - 1)

\* add ignoring the sign of n.
add_AlwaysUp(x, k) ==
    IF k = 0 THEN x
    ELSE StepLoop(x, PosInf, Abs(k))

add(x, k) ==
    IF k = 0 THEN x
    ELSE LET direction == IF k > 0 THEN PosInf ELSE NegInf
         IN StepLoop(x, direction, Abs(k))

\* ---- work done by a call ----------------------------------------------------
\* The number of math.nextafter calls each function makes; nextafter is the
\* only step any of them repeats.
of_calls(x) == IF isnan(x) \/ isinf(x) THEN 0 ELSE 1

\* diff stepping from the smaller value up to the larger one, one
\* nextafter call per representable value in between.
RECURSIVE diff_calls_Stepping(_, _)
diff_calls_Stepping(x, y) ==
    IF ~Finite(x) \/ ~Finite(y) \/ FEq(x, y) THEN 0
    ELSE IF FLess(x, y) THEN 1 + diff_calls_Stepping(nextafter(x, PosInf), y)
    ELSE 1 + diff_calls_Stepping(nextafter(y, PosInf), x)

\* diff has no loop and no call of nextafter on any path.
diff_calls(x, y) == 0

\* within calls nothing but diff.
within_calls(x, y, max_ulps) ==
    IF FEq(x, y) \/ isnan(x) \/ isnan(y) \/ isinf(x) \/ isinf(y) THEN 0
    ELSE diff_calls(x, y)

\* for _ in range(count): one nextafter call per iteration, no early exit.
RECURSIVE StepLoop_calls(_)
StepLoop_calls(count) ==
    IF count = 0 THEN 0 ELSE 1 + StepLoop_calls(count - 1)

add_calls(x, k) == IF k = 0 THEN 0 ELSE StepLoop_calls(Abs(k))

\* ---- the calls ------------------------------------------------------------
\* The functions are pure and keep no state: a behaviour is one call on the
\* drawn arguments a, b (doubles), with n (the step count of add) and m
\* (max_ulps of within) drawn by the call that takes them.
Init ==
    /\ a \in Doubles
    /\ b \in Doubles
    /\ n = 0
    /\ m = 4
    /\ op = "init"
    /\ res = NoResult
    /\ calls = 0

CallOf ==
    /\ op = "init"
    /\ op' = "of"
    /\ res' = of(a)
    /\ calls' = of_calls(a)
    /\ UNCHANGED <<a, b, n, m>>

CallDiff ==
    /\ op = "init"
    /\ op' = "diff"
    /\ res' = diff(a, b)
    /\ calls' = diff_calls(a, b)
    /\ UNCHANGED <<a, b, n, m>>

CallWithin ==
    \E max_ulps \in 0 .. MaxUlps :
        /\ op = "init"
        /\ op' = "within"
        /\ m' = max_ulps
        /\ res' = within(a, b, max_ulps)
        /\ calls' = within_calls(a, b, max_ulps)
        /\ UNCHANGED <<a, b, n>>

CallNext ==
    /\ op = "init"
    /\ op' = "next"
    /\ res' = Return(next(a), "next")
    /\ calls' = 1
    /\ UNCHANGED <<a, b, n, m>>

CallPrev ==
    /\ op = "init"
    /\ op' = "prev"
    /\ res' = Return(prev(a), "prev")
    /\ calls' = 1
    /\ UNCHANGED <<a, b, n, m>>

CallAdd ==
    \E k \in (0 - MaxN) .. MaxN :
        /\ op = "init"
        /\ op' = "add"
        /\ n' = k
        /\ res' = Return(add(a, k), "add")
        /\ calls' = add_calls(a, k)
        /\ UNCHANGED <<a, b, m>>

Next ==
    \/ CallOf
    \/ CallDiff
    \/ CallWithin
    \/ CallNext
    \/ CallPrev
    \/ CallAdd

Spec == Init /\ [][Next]_vars

\* ---- properties ------------------------------------------------------------
\* The monotonic key of the data model: a non-negative double maps to its
\* bit pattern, a negative one to minus the bit pattern of its absolute
\* value; both zeros map to 0.
Key(x) == IF Negative(x) THEN 0 - Magnitude(x) ELSE x

RECURSIVE NextTimes(_, _)
NextTimes(x, k) == IF k = 0 THEN x ELSE next(NextTimes(x, k - 1))

RECURSIVE PrevTimes(_, _)
PrevTimes(x, k) == IF k = 0 THEN x ELSE prev(PrevTimes(x, k - 1))

Steps == (0 - MaxN) .. MaxN

\* C1: for finite a and b, diff(a, b) returns abs(key(b) - key(a)).
C1_DiffIsKeyDistance ==
    (op = "diff" /\ Finite(a) /\ Finite(b))
        => (~res.raised /\ res.value = Abs(Key(b) - Key(a)))

\* C2: for finite a < 0 < b, diff(a, b) = diff(a, -0.0) + diff(0.0, b).
C2_SignCrossingSum ==
    (op = "diff" /\ Finite(a) /\ Finite(b)
        /\ FLess(a, PosZero) /\ FLess(PosZero, b))
        => res.value = diff(a, NegZero).value + diff(PosZero, b).value

\* C3: for finite x and n with add(x, n) finite, diff(x, add(x, n)) = abs(n);
\* and diff(x, next(x)) = 1 when next(x) is finite.
C3_DiffOfAddIsAbsN ==
    /\ (op = "add" /\ Finite(a) /\ Finite(res.value))
        => (~diff(a, res.value).raised /\ diff(a, res.value).value = Abs(n))
    /\ (op = "next" /\ Finite(a) /\ Finite(res.value))
        => (~diff(a, res.value).raised /\ diff(a, res.value).value = 1)

\* C4: for finite x, k with add(x, k) finite and m >= 0,
\* within(x, add(x, k), max_ulps=m) is True exactly when abs(k) <= m.
C4_WithinOfAdd ==
    \A k \in Steps :
        (op = "within" /\ Finite(a) /\ Finite(b) /\ b = add(a, k))
            => (~res.raised /\ res.flag = (Abs(k) <= m))

\* C5 as stated: for every finite x and every n, add(add(x, n), -n) is x
\* bit for bit.
C5_RoundTripBitForBit ==
    (op = "add" /\ Finite(a)) => add(res.value, 0 - n) = a

\* C5 amended: for finite x and n with add(x, n) finite, add(add(x, n), -n)
\* == x as floats, and is x bit for bit when x is not a zero.
C5_RoundTripAwayFromInfinity ==
    (op = "add" /\ Finite(a) /\ Finite(res.value))
        => /\ FEq(add(res.value, 0 - n), a)
           /\ (~IsZero(a) => add(res.value, 0 - n) = a)

C5_Witness ==
    /\ op = "add" /\ n = MaxN
    /\ Finite(a) /\ Negative(a) /\ ~IsZero(a)
    /\ Finite(res.value) /\ ~Negative(res.value) /\ ~IsZero(res.value)
    /\ add(res.value, 0 - n) = a

\* C6: diff raises InvalidValueError exactly when an argument is NaN or
\* infinite and otherwise returns a non-negative integer; of raises exactly
\* when its argument is NaN.
C6_ComputingFunctionsRaise ==
    /\ op = "diff" =>
        /\ res.raised <=> (~Finite(a) \/ ~Finite(b))
        /\ ~res.raised => res.value >= 0
    /\ op = "of" => (res.raised <=> isnan(a))

C6_Witness ==
    op = "diff" /\ Finite(a) /\ isinf(b) /\ res.raised

\* C7: within never raises; it returns False if either value is NaN, a == b
\* if either value is infinite, and otherwise a == b or diff(a, b) <= max_ulps.
C7_WithinNeverRaises ==
    op = "within" =>
        /\ ~res.raised
        /\ res.flag =
            (IF isnan(a) \/ isnan(b) THEN FALSE
             ELSE IF isinf(a) \/ isinf(b) THEN FEq(a, b)
             ELSE FEq(a, b) \/ diff(a, b).value <= m)

C7_Witness ==
    /\ op = "within" /\ Finite(a) /\ Finite(b) /\ ~FEq(a, b)
    /\ diff(a, b).value = m /\ res.flag

\* C8: for finite a and b, diff(a, b) = diff(b, a).
C8_DiffSymmetric ==
    (op = "diff" /\ Finite(a) /\ Finite(b))
        => (~res.raised /\ ~diff(b, a).raised /\ res.value = diff(b, a).value)

C8_Witness ==
    /\ op = "diff" /\ Finite(a) /\ Finite(b)
    /\ FLess(PosZero, a) /\ FLess(b, PosZero)
    /\ res.branch = "cross" /\ res.value = diff(b, a).value

\* C9: diff(x, x) = 0 for finite x and diff(0.0, -0.0) = diff(-0.0, 0.0) = 0,
\* returned by the a == b check before any bit pattern is computed.
C9_DiffIdentity ==
    (op = "diff" /\ Finite(a) /\ (a = b \/ (IsZero(a) /\ IsZero(b))))
        => (~res.raised /\ res.value = 0 /\ res.branch = "equal")

C9_Witness ==
    op = "diff" /\ a = PosZero /\ b = NegZero /\ res.value = 0

\* C10: add(x, 0) is x; for n > 0 add(x, n) is next applied n times; for
\* n < 0 it is prev applied abs(n) times; for every double x.
C10_AddIsRepeatedStep ==
    op = "add" =>
        res.value = (IF n = 0 THEN a
                     ELSE IF n > 0 THEN NextTimes(a, n)
                     ELSE PrevTimes(a, Abs(n)))

C10_Witness ==
    /\ op = "add" /\ n = 0 - 2
    /\ res.value = prev(prev(a)) /\ res.value # a /\ res.value # prev(a)

\* 1.0: exponent field equal to the bias, mantissa 0.
One == (Pow2(ExpBits - 1) - 1) * Pow2(ManBits)

\* C11: next(+inf) = +inf and prev(-inf) = -inf; in add, once a step has
\* reached +inf (n > 0) or -inf (n < 0) the result is that infinity, so
\* add(+inf, n) = +inf for n >= 0 and add(-inf, n) = -inf for n <= 0; next,
\* prev and add never raise.
C11_InfinityAbsorbs ==
    /\ (op = "next" /\ a = PosInf) => res.value = PosInf
    /\ (op = "prev" /\ a = NegInf) => res.value = NegInf
    /\ (op = "add" /\ n >= 0 /\ \E j \in 0 .. n : NextTimes(a, j) = PosInf)
        => res.value = PosInf
    /\ (op = "add" /\ n <= 0 /\ \E j \in 0 .. Abs(n) : PrevTimes(a, j) = NegInf)
        => res.value = NegInf
    /\ op \in {"next", "prev", "add"} => ~res.raised

C11_Witness ==
    /\ op = "add" /\ n = MaxN /\ Finite(a)
    /\ NextTimes(a, 2) = PosInf /\ res.value = PosInf

\* C12: of(x) is +inf for x = +inf or -inf, the smallest positive subnormal
\* for x = +0.0 or -0.0, and abs(nextafter(x, +inf) - x) for every other
\* non-NaN x; of(1.0) is 2^-ManBits (2^-52 in binary64).
C12_OfIsGapAbove ==
    /\ (op = "of" /\ ~isnan(a)) =>
        /\ ~res.raised
        /\ res.value = (IF isinf(a) THEN PosInf
                        ELSE IF IsZero(a) THEN MinSubnormal
                        ELSE AbsFSub(next(a), a))
    /\ (op = "of" /\ a = One) => Val(res.value) * Pow2(ManBits) = Val(One)

C12_Witness ==
    op = "of" /\ a = One /\ Val(res.value) * Pow2(ManBits) = Val(One)

\* C13 as stated: every operation completes in a number of steps bounded
\* independently of its arguments (no operation repeats a step: at most the
\* one nextafter call of a straight-line path), and diff never steps through
\* the values between a and b.
C13_ConstantWork ==
    /\ op # "init" => calls <= 1
    /\ op = "diff" => calls = 0

\* C13 amended: of, diff, within, next and prev make at most one nextafter
\* call whatever their arguments, diff makes none; add makes exactly abs(n)
\* nextafter calls, whatever x is.
C13_ConstantWorkExceptAdd ==
    /\ op \in {"of", "next", "prev"} => calls <= 1
    /\ op \in {"diff", "within"} => calls = 0
    /\ op = "add" => calls = Abs(n)

C13_Witness ==
    /\ op = "diff" /\ Finite(a) /\ Finite(b)
    /\ res.value > MaxN /\ calls = 0

\* float_to_int_bits is local to diff and is applied to both arguments on
\* the paths that get past the NaN, infinity and a == b returns.
BitsComputed == op = "diff" /\ res.branch \in {"cross", "same"}

\* C14: the integer float_to_int_bits derives from a double is the folded
\* key: the pattern itself when the sign bit is 0, minus the pattern with
\* the sign bit cleared when it is 1; both zeros get 0.
C14_BitsAreFoldedKey ==
    BitsComputed =>
        /\ float_to_int_bits(a) = Key(a)
        /\ float_to_int_bits(b) = Key(b)
        /\ IsZero(a) => float_to_int_bits(a) = 0
        /\ IsZero(b) => float_to_int_bits(b) = 0

\* C15: float_to_int_bits is monotonic: for finite a <= b,
\* key(a) <= key(b).
C15_BitsMonotonic ==
    (BitsComputed /\ (FLess(a, b) \/ FEq(a, b)))
        => float_to_int_bits(a) <= float_to_int_bits(b)

\* C16 as stated: the branch returning abs(a_bits) + abs(b_bits) is reached
\* only when neither a nor b is a zero.
C16_CrossExcludesZero ==
    (op = "diff" /\ res.branch = "cross") => (~IsZero(a) /\ ~IsZero(b))

\* C16 amended: that branch is reached exactly when a and b are finite and
\* exactly one of them is strictly negative; the negative one is never a
\* zero, the other one may be +0.0 or -0.0.
C16_CrossIffOneNegative ==
    op = "diff" =>
        /\ res.branch = "cross" <=>
            (Finite(a) /\ Finite(b) /\ (FLess(a, PosZero) # FLess(b, PosZero)))
        /\ res.branch = "cross" => ~(IsZero(a) /\ IsZero(b))

C16_Witness ==
    /\ op = "diff" /\ res.branch = "cross"
    /\ FLess(a, PosZero) /\ b = NegZero

\* C17: for finite a and b both strictly positive or both strictly negative,
\* diff(a, b) is the absolute difference of their magnitude bit patterns,
\* which is the number of next steps from the smaller to the larger value.
C17_SameSignDistance ==
    (op = "diff" /\ Finite(a) /\ Finite(b)
        /\ ((FLess(PosZero, a) /\ FLess(PosZero, b))
            \/ (FLess(a, PosZero) /\ FLess(b, PosZero))))
        => /\ ~res.raised
           /\ res.value = Abs(Magnitude(a) - Magnitude(b))
           /\ NextTimes(IF FLess(a, b) THEN a ELSE b, res.value)
                = (IF FLess(a, b) THEN b ELSE a)

C17_Witness ==
    /\ op = "diff" /\ FLess(a, PosZero) /\ FLess(b, a)
    /\ Exponent(a) = 0 /\ Exponent(b) > 1 /\ Finite(b)
    /\ res.value = Magnitude(b) - Magnitude(a)
    /\ NextTimes(b, res.value) = a

====
